---- MODULE Spec2Model ----
(***************************************************************************)
(* Model of gkze/awssume: the role registry (Config), the resource         *)
(* identifier codec (ARN), the format layer (ConfigFormat), the config     *)
(* store (NewConfig / Save) and the CLI commands that combine them.        *)
(*                                                                         *)
(* Go strings are byte sequences; the model writes them as sequences of    *)
(* one-character strings, ordered by their byte value (ByteOrder).         *)
(***************************************************************************)
EXTENDS Integers, Sequences, FiniteSets, TLC

VARIABLES
    fs,     \* the filesystem: extension -> content of <path>.<extension>
    cfg,    \* the *Config the process holds (NilConfig when it holds none)
    last,   \* the last operation called, its arguments and the error it returned
    ex,     \* the process of the exec command: its main flow, relay and child
    call    \* an input of the codecs and the functions applied to it so far

vars == <<fs, cfg, last, ex, call>>

(***************************************************************************)
(* Bounds of the model.                                                    *)
(***************************************************************************)
\* longest registry the registry-only specification grows
MaxRoles == 3

(***************************************************************************)
(* Strings.                                                                *)
(***************************************************************************)
\* the characters the model uses, in increasing byte value
ByteOrder == <<"/", "0", ":", "a", "b", "i", "n", "r", "s", "w">>

Ord(c) == CHOOSE i \in 1..Len(ByteOrder) : ByteOrder[i] = c

\* Go's s < t on strings: bytewise lexicographic order
RECURSIVE StrLess(_, _)
StrLess(s, t) ==
    IF t = <<>> THEN FALSE
    ELSE IF s = <<>> THEN TRUE
    ELSE IF Ord(Head(s)) < Ord(Head(t)) THEN TRUE
    ELSE IF Ord(Head(s)) > Ord(Head(t)) THEN FALSE
    ELSE StrLess(Tail(s), Tail(t))

StrGreater(s, t) == StrLess(t, s)

\* the test that looks at the first byte only
HasPrefixFirstByte(s, p) == Len(s) >= 1 /\ Len(p) >= 1 /\ s[1] = p[1]

\* strings.HasPrefix
HasPrefix(s, p) == Len(s) >= Len(p) /\ SubSeq(s, 1, Len(p)) = p

\* strings.Index for a one-byte separator: 0 when absent (Go: -1)
StrIndex(s, c) ==
    IF \E i \in 1..Len(s) : s[i] = c
    THEN CHOOSE i \in 1..Len(s) : s[i] = c /\ \A j \in 1..(i - 1) : s[j] # c
    ELSE 0

\* the split at every separator, whatever n is (strings.Split)
RECURSIVE SplitNAll(_, _, _)
SplitNAll(s, sep, n) ==
    IF StrIndex(s, sep) = 0 THEN <<s>>
    ELSE <<SubSeq(s, 1, StrIndex(s, sep) - 1)>>
         \o SplitNAll(SubSeq(s, StrIndex(s, sep) + 1, Len(s)), sep, n)

\* strings.SplitN(s, sep, n) for n >= 1
RECURSIVE SplitN(_, _, _)
SplitN(s, sep, n) ==
    IF n <= 1 \/ StrIndex(s, sep) = 0 THEN <<s>>
    ELSE <<SubSeq(s, 1, StrIndex(s, sep) - 1)>>
         \o SplitN(SubSeq(s, StrIndex(s, sep) + 1, Len(s)), sep, n - 1)

(***************************************************************************)
(* Resource identifier codec: ParseARN and ARN.String.                     *)
(***************************************************************************)
arnPrefix == <<"a", "r", "n", ":">>

\* arn.ARN{}: what arn.Parse returns beside an error
ZeroARN ==
    [Partition |-> <<>>, Service |-> <<>>, Region |-> <<>>,
     AccountID |-> <<>>, Resource |-> <<>>]

\* the parser that splits at every colon and keeps the first six sections
ParseARNSplitAll(s) ==
    IF ~HasPrefix(s, arnPrefix)
    THEN [arn |-> ZeroARN, err |-> "invalid prefix"]
    ELSE LET sections == SplitN(s, ":", Len(s) + 1) IN
         IF Len(sections) < 6
         THEN [arn |-> ZeroARN, err |-> "not enough sections"]
         ELSE [arn |-> [Partition |-> sections[2], Service |-> sections[3],
                        Region |-> sections[4], AccountID |-> sections[5],
                        Resource |-> sections[6]],
               err |-> "nil"]

\* ParseARN(s) = arn.Parse(s): [arn, err]
ParseARN(s) ==
    IF ~HasPrefix(s, arnPrefix)
    THEN [arn |-> ZeroARN, err |-> "invalid prefix"]
    ELSE LET sections == SplitN(s, ":", 6) IN
         IF Len(sections) # 6
         THEN [arn |-> ZeroARN, err |-> "not enough sections"]
         ELSE [arn |-> [Partition |-> sections[2], Service |-> sections[3],
                        Region |-> sections[4], AccountID |-> sections[5],
                        Resource |-> sections[6]],
               err |-> "nil"]

\* the stringifier that leaves an empty region out, with its colon
ARNStringSkipEmpty(a) ==
    arnPrefix \o a.Partition \o <<":">> \o a.Service
    \o (IF a.Region = <<>> THEN <<>> ELSE <<":">> \o a.Region)
    \o <<":">> \o a.AccountID \o <<":">> \o a.Resource

\* ARN.String = arn.ARN.String
ARNString(a) ==
    arnPrefix \o a.Partition \o <<":">> \o a.Service \o <<":">> \o a.Region
    \o <<":">> \o a.AccountID \o <<":">> \o a.Resource

(***************************************************************************)
(* Inputs.                                                                 *)
(***************************************************************************)
\* "arn:aws:iam::0:r/s": empty region, as in the tests
SkunkARNString ==
    <<"a", "r", "n", ":", "a", "w", "s", ":", "i", "a", "m", ":", ":", "0", ":",
      "r", "/", "s">>
\* "arn:a:s:w:0:r:b": the resource itself holds a colon
ColonARNString ==
    <<"a", "r", "n", ":", "a", ":", "s", ":", "w", ":", "0", ":", "r", ":", "b">>
\* "arn:aws": too few sections
ShortARNString == <<"a", "r", "n", ":", "a", "w", "s">>

ValidARNStrings == {SkunkARNString, ColonARNString}
ARNStrings == ValidARNStrings \cup {ShortARNString, <<>>}

\* aliases: "a", "ab", "b" (and the empty alias)
Aliases == {<<"a">>, <<"a", "b">>, <<"b">>, <<>>}
StoreAliases == {<<"a">>, <<"b">>}

SessionNames == {"sess"}

\* the Role struct; ARN holds the parsed identifier the pointer refers to
MkRole(alias, arnString, sessionName) ==
    [Alias |-> alias, ARN |-> ParseARN(arnString).arn, SessionName |-> sessionName]

\* the roles the callers of the registry specification pass: one for each
\* alias, and a second one with the alias "b"
Roles ==
    {MkRole(a, SkunkARNString, n) : a \in Aliases, n \in SessionNames}
    \cup {MkRole(<<"b">>, ColonARNString, n) : n \in SessionNames}
\* the arguments the add command is given: role, alias, session_name
AddArgs ==
    {<<SkunkARNString, <<"a">>, "sess">>, <<ColonARNString, <<"b">>, "sess">>,
     <<ShortARNString, <<"b">>, "sess">>}

\* the roles the callers of the store specification add
StoreRoles == {MkRole(x[2], x[1], x[3]) : x \in {y \in AddArgs : y[1] \in ValidARNStrings}}

(***************************************************************************)
(* ConfigFormat.                                                           *)
(***************************************************************************)
JSON == "JSON"
TOML == "TOML"
YAML == "YAML"
Unknown == "Unknown"

Formats == {JSON, TOML, YAML, Unknown}

\* strings.TrimPrefix
TrimPrefix(s, p) == IF HasPrefix(s, p) THEN SubSeq(s, Len(p) + 1, Len(s)) ELSE s

\* FromExt without the trimming of the dot
FromExtNoTrim(ext) ==
    IF ext = <<"j", "s", "o", "n">> THEN JSON
    ELSE IF ext = <<"t", "o", "m", "l">> THEN TOML
    ELSE IF ext = <<"y", "a", "m", "l">> \/ ext = <<"y", "m", "l">> THEN YAML
    ELSE Unknown

\* ConfigFormat.FromExt: the format *cf is set to
FromExt(ext) ==
    LET e == TrimPrefix(ext, <<".">>) IN
    IF e = <<"j", "s", "o", "n">> THEN JSON
    ELSE IF e = <<"t", "o", "m", "l">> THEN TOML
    ELSE IF e = <<"y", "a", "m", "l">> \/ e = <<"y", "m", "l">> THEN YAML
    ELSE Unknown

\* ConfigFormat.String
FormatString(cf) ==
    IF cf = JSON THEN <<"j", "s", "o", "n">>
    ELSE IF cf = TOML THEN <<"t", "o", "m", "l">>
    ELSE IF cf = YAML THEN <<"y", "a", "m", "l">>
    ELSE IF cf = Unknown THEN <<"U", "N", "K", "N", "O", "W", "N">>
    ELSE <<>>

\* the extensions a file of the model can carry: <path>.<extension>
Extensions == {FormatString(cf) : cf \in Formats}

\* what the convert command is given as its argument: json, .json, toml,
\* yaml, yml, xml and the empty string
ExtArgs ==
    {<<"j", "s", "o", "n">>, <<".", "j", "s", "o", "n">>, <<"t", "o", "m", "l">>,
     <<"y", "a", "m", "l">>, <<"y", "m", "l">>, <<"x", "m", "l">>, <<>>}

\* the arguments the store specification gives the convert command
ConvertArgs ==
    {<<"j", "s", "o", "n">>, <<"t", "o", "m", "l">>, <<"y", "a", "m", "l">>,
     <<"y", "m", "l">>, <<"x", "m", "l">>}

(***************************************************************************)
(* Role registry: the Roles slice of Config.                               *)
(***************************************************************************)
NilConfig == [nil |-> TRUE]

\* the record of a call that has returned: the operation, its arguments, the
\* registry it was called on, the filesystem fault it met ("ok" when none)
\* and the error it returned ("nil" when none)
Ret(op, args, pre, io, err) ==
    [op |-> op, args |-> args, pre |-> pre, io |-> io, err |-> err]

\* the lookup that returns the last role with the alias
GetRoleByAliasLast(roles, alias) ==
    IF \E i \in 1..Len(roles) : roles[i].Alias = alias
    THEN CHOOSE i \in 1..Len(roles) :
            roles[i].Alias = alias /\ \A j \in (i + 1)..Len(roles) : roles[j].Alias # alias
    ELSE 0

\* Config.GetRoleByAlias: index of the first role with the alias, 0 when
\* none (Go: nil and ErrRoleNotFound)
GetRoleByAlias(roles, alias) ==
    IF \E i \in 1..Len(roles) : roles[i].Alias = alias
    THEN CHOOSE i \in 1..Len(roles) :
            roles[i].Alias = alias /\ \A j \in 1..(i - 1) : roles[j].Alias # alias
    ELSE 0

\* the removal that moves the last element into the hole
RemoveAtSwapLast(roles, i) ==
    IF i = Len(roles) THEN SubSeq(roles, 1, Len(roles) - 1)
    ELSE [SubSeq(roles, 1, Len(roles) - 1) EXCEPT ![i] = roles[Len(roles)]]

\* c.Roles[:i+copy(c.Roles[i:], c.Roles[i+1:])]: the slice without element i
RemoveAt(roles, i) == SubSeq(roles, 1, i - 1) \o SubSeq(roles, i + 1, Len(roles))

\* the less function with the comparison turned around
AliasLessAscending(r1, r2) == StrLess(r1.Alias, r2.Alias)

\* the less function AddRole gives sort.Slice
AliasLess(r1, r2) == StrGreater(r1.Alias, r2.Alias)

\* what sort.Slice(roles, less) may leave: sort.Slice is not stable, so
\* every permutation of roles in which no later element is less than an
\* earlier one
SortSlice(roles) ==
    {p \in {[i \in 1..Len(roles) |-> roles[f[i]]] : f \in Permutations(1..Len(roles))} :
        \A i, j \in 1..Len(p) : i < j => ~AliasLess(p[j], p[i])}

\* AddRole without the lookup of the alias
AddRoleResultsUnchecked(roles, r) ==
    {[roles |-> sorted, err |-> "nil"] : sorted \in SortSlice(Append(roles, r))}

\* Config.AddRole on the slice roles: what c.Roles may be left as, and the
\* error returned
AddRoleResults(roles, r) ==
    IF GetRoleByAlias(roles, r.Alias) # 0
    THEN {[roles |-> roles, err |-> "RoleExists"]}
    ELSE {[roles |-> sorted, err |-> "nil"] : sorted \in SortSlice(Append(roles, r))}

\* Config.RemoveRoleByAlias on the slice roles
RemoveRoleResult(roles, alias) ==
    IF GetRoleByAlias(roles, alias) # 0
    THEN [roles |-> RemoveAt(roles, GetRoleByAlias(roles, alias)), err |-> "nil"]
    ELSE [roles |-> roles, err |-> "RoleNotFound"]

\* UpdateRoleByAlias with the sort of AddRole after the append
UpdateRoleResultSorted(roles, alias, r) ==
    LET removed == RemoveRoleResult(roles, alias) IN
    IF removed.err # "nil"
    THEN [roles |-> roles, err |-> removed.err]
    ELSE [roles |-> CHOOSE sorted \in SortSlice(Append(removed.roles, r)) : TRUE,
          err |-> "nil"]

\* Config.UpdateRoleByAlias on the slice roles
UpdateRoleResult(roles, alias, r) ==
    LET removed == RemoveRoleResult(roles, alias) IN
    IF removed.err # "nil"
    THEN [roles |-> roles, err |-> removed.err]
    ELSE [roles |-> Append(removed.roles, r), err |-> "nil"]

\* a caller calls Config.AddRole
AddRole(r) ==
    /\ cfg # NilConfig
    /\ \E res \in AddRoleResults(cfg.Roles, r) :
        /\ cfg' = [cfg EXCEPT !.Roles = res.roles]
        /\ last' = Ret("AddRole", [role |-> r], cfg.Roles, "ok", res.err)
    /\ UNCHANGED <<fs, ex, call>>

\* a caller calls Config.RemoveRoleByAlias
RemoveRoleByAlias(alias) ==
    /\ cfg # NilConfig
    /\ LET res == RemoveRoleResult(cfg.Roles, alias) IN
        /\ cfg' = [cfg EXCEPT !.Roles = res.roles]
        /\ last' = Ret("RemoveRoleByAlias", [alias |-> alias], cfg.Roles, "ok", res.err)
    /\ UNCHANGED <<fs, ex, call>>

\* a caller calls Config.UpdateRoleByAlias
UpdateRoleByAlias(alias, r) ==
    /\ cfg # NilConfig
    /\ LET res == UpdateRoleResult(cfg.Roles, alias, r) IN
        /\ cfg' = [cfg EXCEPT !.Roles = res.roles]
        /\ last' = Ret("UpdateRoleByAlias", [alias |-> alias, role |-> r], cfg.Roles,
                        "ok", res.err)
    /\ UNCHANGED <<fs, ex, call>>

\* a caller calls SetAlias on the role c.GetRoles()[i] (for the first role
\* with an alias, the role GetRoleByAlias returns): both hand out the
\* *Role the registry holds
RoleSetAlias(i, alias) ==
    /\ cfg # NilConfig
    /\ i \in 1..Len(cfg.Roles)
    /\ cfg' = [cfg EXCEPT !.Roles[i].Alias = alias]
    /\ last' = Ret("SetAlias", [index |-> i, alias |-> alias], cfg.Roles, "ok", "nil")
    /\ UNCHANGED <<fs, ex, call>>

\* a caller calls SetARN on the role c.GetRoles()[i]
RoleSetARN(i, a) ==
    /\ cfg # NilConfig
    /\ i \in 1..Len(cfg.Roles)
    /\ cfg' = [cfg EXCEPT !.Roles[i].ARN = a]
    /\ last' = Ret("SetARN", [index |-> i, arn |-> a], cfg.Roles, "ok", "nil")
    /\ UNCHANGED <<fs, ex, call>>

\* a caller calls SetSessionName on the role c.GetRoles()[i]
RoleSetSessionName(i, sname) ==
    /\ cfg # NilConfig
    /\ i \in 1..Len(cfg.Roles)
    /\ cfg' = [cfg EXCEPT !.Roles[i].SessionName = sname]
    /\ last' = Ret("SetSessionName", [index |-> i, sname |-> sname], cfg.Roles, "ok", "nil")
    /\ UNCHANGED <<fs, ex, call>>

(***************************************************************************)
(* File contents.  A file is absent, empty (zero bytes), bytes no decoder  *)
(* accepts, or a document in the syntax of one format.  A document holds   *)
(* the one field roles, a list of {alias, arn, session_name}; what the arn *)
(* member looks like is what the format's codec of ARN decides.            *)
(***************************************************************************)
Absent == [absent |-> TRUE]
EmptyFile == [enc |-> "empty"]
Garbage == [enc |-> "garbage"]

Document(enc, roles) == [enc |-> enc, roles |-> roles]

\* ARN.MarshalYAML: the scalar a.String()
MarshalYAML(a) == [t |-> "scalar", value |-> ARNString(a)]

\* ARN.UnmarshalYAML: ParseARN(n.Value)
UnmarshalYAML(n) == ParseARN(n.value)

\* ARN.MarshalJSON: the bytes of a.String(), as they are (no quotes)
MarshalJSON(a) == [t |-> "raw", text |-> ARNString(a)]

\* the bytes a JSON value can start with
JSONValueStart ==
    {"{", "[", "\"", "-", "0", "1", "2", "3", "4", "5", "6", "7", "8", "9", "t", "f", "n"}

\* json.Marshal compacts what a Marshaler returns and fails when it is not
\* a JSON value; the first byte decides for the text of an ARN ("arn:...")
ValidJSONText(text) == Len(text) > 0 /\ text[1] \in JSONValueStart

\* the decoder that takes a JSON string for the identifier as well
UnmarshalJSONOfString(value) ==
    LET intermediateArn == IF value.t = "object" THEN value.arn
                           ELSE IF value.t = "string" THEN value.s ELSE <<>>
    IN  ParseARN(intermediateArn)

\* ARN.UnmarshalJSON: json.Unmarshal into struct{Arn string `json:"arn"`},
\* whose error is overwritten, then ParseARN(intermediate.Arn)
UnmarshalJSON(value) ==
    LET intermediateArn == IF value.t = "object" THEN value.arn ELSE <<>>
    IN  ParseARN(intermediateArn)

\* yaml.Marshal(c)
yamlMarshal(c) ==
    [bytes |-> Document("yaml",
                   [i \in 1..Len(c.Roles) |->
                       [alias |-> c.Roles[i].Alias,
                        arn |-> MarshalYAML(c.Roles[i].ARN),
                        session_name |-> c.Roles[i].SessionName]]),
     err |-> "nil"]

\* json.Marshal(c)
jsonMarshal(c) ==
    LET arns == [i \in 1..Len(c.Roles) |-> MarshalJSON(c.Roles[i].ARN)] IN
    IF \E i \in 1..Len(arns) : ~ValidJSONText(arns[i].text)
    THEN [bytes |-> EmptyFile, err |-> "MarshalerError"]
    ELSE [bytes |-> Document("json",
                        [i \in 1..Len(c.Roles) |->
                            [alias |-> c.Roles[i].Alias,
                             arn |-> arns[i],
                             session_name |-> c.Roles[i].SessionName]]),
          err |-> "nil"]

\* toml.Marshal(c): ARN has no TOML marshaler, so the encoder walks the
\* struct: the arn member is a table holding the embedded arn.ARN's fields
tomlMarshal(c) ==
    [bytes |-> Document("toml",
                   [i \in 1..Len(c.Roles) |->
                       [alias |-> c.Roles[i].Alias,
                        arn |-> [t |-> "table", arn |->
                            [partition |-> c.Roles[i].ARN.Partition,
                             service |-> c.Roles[i].ARN.Service,
                             region |-> c.Roles[i].ARN.Region,
                             account_id |-> c.Roles[i].ARN.AccountID,
                             resource |-> c.Roles[i].ARN.Resource]],
                        session_name |-> c.Roles[i].SessionName]]),
     err |-> "nil"]

\* the roles a decoder builds from a document's entries, given the ARN each
\* entry decodes to; the first ARN error fails the whole decode
DecodedRoles(entries, arns) ==
    IF \E i \in 1..Len(arns) : arns[i].err # "nil"
    THEN [roles |-> <<>>, err |-> "decode error"]
    ELSE [roles |-> [i \in 1..Len(entries) |->
                        [Alias |-> entries[i].alias,
                         ARN |-> arns[i].arn,
                         SessionName |-> entries[i].session_name]],
          err |-> "nil"]

\* yaml.Unmarshal(bytes, cfg): no document leaves cfg as it is
yamlUnmarshal(bytes) ==
    IF bytes = EmptyFile THEN [roles |-> <<>>, err |-> "nil"]
    ELSE IF bytes.enc # "yaml" THEN [roles |-> <<>>, err |-> "decode error"]
    ELSE DecodedRoles(bytes.roles,
            [i \in 1..Len(bytes.roles) |-> UnmarshalYAML(bytes.roles[i].arn)])

\* json.Unmarshal(bytes, cfg): zero bytes are no JSON value
jsonUnmarshal(bytes) ==
    IF bytes = EmptyFile \/ bytes.enc # "json"
    THEN [roles |-> <<>>, err |-> "decode error"]
    ELSE DecodedRoles(bytes.roles,
            [i \in 1..Len(bytes.roles) |-> UnmarshalJSON(bytes.roles[i].arn)])

\* toml.Unmarshal(bytes, cfg): the arn table is read back field by field
tomlUnmarshal(bytes) ==
    IF bytes = EmptyFile THEN [roles |-> <<>>, err |-> "nil"]
    ELSE IF bytes.enc # "toml" THEN [roles |-> <<>>, err |-> "decode error"]
    ELSE DecodedRoles(bytes.roles,
            [i \in 1..Len(bytes.roles) |->
                [arn |-> [Partition |-> bytes.roles[i].arn.arn.partition,
                          Service |-> bytes.roles[i].arn.arn.service,
                          Region |-> bytes.roles[i].arn.arn.region,
                          AccountID |-> bytes.roles[i].arn.arn.account_id,
                          Resource |-> bytes.roles[i].arn.arn.resource],
                 err |-> "nil"]])

(***************************************************************************)
(* Config store: NewConfig and Config.Save.  io names the one filesystem   *)
(* fault the call meets if it gets there: statErr (an existence probe),    *)
(* readErr, createErr, openErr and writeErr (WriteFile before and after    *)
(* it truncated the file), removeErr; "ok" is no fault.                    *)
(***************************************************************************)
Faults == {"ok", "statErr", "readErr", "createErr", "openErr", "writeErr", "removeErr"}

\* the faults the store specification lets a CLI command meet: one of
\* NewConfig, one of Save, and the one of Remove
CommandFaults == {"ok", "statErr", "writeErr", "removeErr"}

\* the switch with the decoders of YAML and TOML exchanged
UnmarshalExchanged(format, bytes) ==
    IF format = JSON THEN jsonUnmarshal(bytes)
    ELSE IF format = YAML THEN tomlUnmarshal(bytes)
    ELSE IF format = TOML THEN yamlUnmarshal(bytes)
    ELSE [roles |-> <<>>, err |-> "ErrUnsupportedConfigFormat"]

\* the switch of NewConfig over cfg.GetFormat() and the call of unmarshalFn
Unmarshal(format, bytes) ==
    IF format = JSON THEN jsonUnmarshal(bytes)
    ELSE IF format = YAML THEN yamlUnmarshal(bytes)
    ELSE IF format = TOML THEN tomlUnmarshal(bytes)
    ELSE [roles |-> <<>>, err |-> "ErrUnsupportedConfigFormat"]

\* the tail of NewConfig: decode bytes into cfg
NewConfigDecode(format, bytes, fsys, io) ==
    LET u == Unmarshal(format, bytes) IN
    IF u.err = "ErrUnsupportedConfigFormat"
    THEN [cfg |-> NilConfig, fs |-> fsys, io |-> io, err |-> "ErrUnsupportedConfigFormat"]
    ELSE IF u.err # "nil"
    THEN [cfg |-> NilConfig, fs |-> fsys, io |-> io, err |-> "ErrUnmarshal"]
    ELSE [cfg |-> [Format |-> format, Roles |-> u.roles], fs |-> fsys, io |-> io,
          err |-> "nil"]

\* the selection without the default for no file at all
SelectFormatNoDefault(JSONFileExists, YAMLFileExists, TOMLFileExists) ==
    IF JSONFileExists THEN JSON
    ELSE IF YAMLFileExists THEN YAML
    ELSE IF TOMLFileExists THEN TOML
    ELSE Unknown

\* the format NewConfig selects from the three existence probes
SelectFormat(JSONFileExists, YAMLFileExists, TOMLFileExists) ==
    IF JSONFileExists THEN JSON
    ELSE IF YAMLFileExists THEN YAML
    ELSE IF TOMLFileExists THEN TOML
    ELSE YAML

\* the test without its last pair
MultipleConfigsButYAMLAndTOML(JSONFileExists, YAMLFileExists, TOMLFileExists) ==
    \/ JSONFileExists /\ YAMLFileExists /\ TOMLFileExists
    \/ JSONFileExists /\ YAMLFileExists
    \/ JSONFileExists /\ TOMLFileExists

\* the test of NewConfig for several configuration files
MultipleConfigs(JSONFileExists, YAMLFileExists, TOMLFileExists) ==
    \/ JSONFileExists /\ YAMLFileExists /\ TOMLFileExists
    \/ JSONFileExists /\ YAMLFileExists
    \/ JSONFileExists /\ TOMLFileExists
    \/ YAMLFileExists /\ TOMLFileExists

\* NewConfig that opens the selected file with Create, which truncates it
NewConfigResultCreate(fsys, io) ==
    LET JSONFileExists == fsys[FormatString(JSON)] # Absent
        YAMLFileExists == fsys[FormatString(YAML)] # Absent
        TOMLFileExists == fsys[FormatString(TOML)] # Absent
        format == SelectFormat(JSONFileExists, YAMLFileExists, TOMLFileExists)
        cfgPath == FormatString(format)
    IN  IF io = "statErr"
        THEN [cfg |-> NilConfig, fs |-> fsys, io |-> io, err |-> "ErrCheckFileExists"]
        ELSE IF MultipleConfigs(JSONFileExists, YAMLFileExists, TOMLFileExists)
        THEN [cfg |-> NilConfig, fs |-> fsys, io |-> "ok", err |-> "ErrMultipleConfigs"]
        ELSE IF io = "createErr"
        THEN [cfg |-> NilConfig, fs |-> fsys, io |-> io, err |-> "panic"]
        ELSE NewConfigDecode(format, EmptyFile, [fsys EXCEPT ![cfgPath] = EmptyFile], "ok")

\* NewConfig on the filesystem fsys: the *Config returned, the filesystem
\* left, the fault met and the error returned
NewConfigResult(fsys, io) ==
    LET JSONFileExists == fsys[FormatString(JSON)] # Absent
        YAMLFileExists == fsys[FormatString(YAML)] # Absent
        TOMLFileExists == fsys[FormatString(TOML)] # Absent
        format == SelectFormat(JSONFileExists, YAMLFileExists, TOMLFileExists)
        cfgPath == FormatString(format)
    IN  IF io = "statErr"
        THEN [cfg |-> NilConfig, fs |-> fsys, io |-> io, err |-> "ErrCheckFileExists"]
        ELSE IF MultipleConfigs(JSONFileExists, YAMLFileExists, TOMLFileExists)
        THEN [cfg |-> NilConfig, fs |-> fsys, io |-> "ok", err |-> "ErrMultipleConfigs"]
        ELSE IF fsys[cfgPath] = Absent
        THEN IF io = "createErr"
             \* Create returned a nil File: the deferred f.Close() panics
             THEN [cfg |-> NilConfig, fs |-> fsys, io |-> io, err |-> "panic"]
             ELSE NewConfigDecode(format, EmptyFile,
                                  [fsys EXCEPT ![cfgPath] = EmptyFile], "ok")
        ELSE IF io = "readErr"
        THEN [cfg |-> NilConfig, fs |-> fsys, io |-> io, err |-> "ErrReadingFile"]
        ELSE NewConfigDecode(format, fsys[cfgPath], fsys, "ok")

\* the switch of Save over c.GetFormat() and the call of marshalFn; the
\* default marshalFn returns no bytes and no error
Marshal(c) ==
    IF c.Format = JSON THEN jsonMarshal(c)
    ELSE IF c.Format = TOML THEN tomlMarshal(c)
    ELSE IF c.Format = YAML THEN yamlMarshal(c)
    ELSE [bytes |-> EmptyFile, err |-> "nil"]

\* Save that opens (and truncates) the file before it serializes
SaveResultOpenFirst(c, fsys, io) ==
    LET m == Marshal(c)
        name == FormatString(c.Format)
    IN  IF io = "openErr"
        THEN [fs |-> fsys, io |-> io, err |-> "WriteError"]
        ELSE IF m.err # "nil"
        THEN [fs |-> [fsys EXCEPT ![name] = EmptyFile], io |-> "ok", err |-> "ErrMarshal"]
        ELSE IF io = "writeErr"
        THEN [fs |-> [fsys EXCEPT ![name] = EmptyFile], io |-> io, err |-> "WriteError"]
        ELSE [fs |-> [fsys EXCEPT ![name] = m.bytes], io |-> "ok", err |-> "nil"]

\* Config.Save of c on the filesystem fsys
SaveResult(c, fsys, io) ==
    LET m == Marshal(c)
        name == FormatString(c.Format)
    IN  IF m.err # "nil"
        THEN [fs |-> fsys, io |-> "ok", err |-> "ErrMarshal"]
        ELSE IF io = "openErr"
        THEN [fs |-> fsys, io |-> io, err |-> "WriteError"]
        ELSE IF io = "writeErr"
        THEN [fs |-> [fsys EXCEPT ![name] = EmptyFile], io |-> io, err |-> "WriteError"]
        ELSE [fs |-> [fsys EXCEPT ![name] = m.bytes], io |-> "ok", err |-> "nil"]

\* a process calls NewConfig
NewConfig(io) ==
    \E r \in {NewConfigResult(fs, io)} :
        /\ cfg' = r.cfg
        /\ fs' = r.fs
        /\ last' = Ret("NewConfig", <<>>, <<>>, r.io, r.err)
        /\ UNCHANGED <<ex, call>>

\* Config.SetFormat
SetFormat(format) ==
    /\ cfg # NilConfig
    /\ cfg' = [cfg EXCEPT !.Format = format]
    /\ last' = Ret("SetFormat", [format |-> format], <<>>, "ok", "nil")
    /\ UNCHANGED <<fs, ex, call>>

\* Config.Save
Save(io) ==
    /\ cfg # NilConfig
    /\ \E r \in {SaveResult(cfg, fs, io)} :
        /\ fs' = r.fs
        /\ last' = Ret("Save", <<>>, <<>>, r.io, r.err)
    /\ UNCHANGED <<cfg, ex, call>>

(***************************************************************************)
(* CLI commands: each runs in a process of its own, from NewConfig to the  *)
(* return of RunE, and the process holds no Config once it has returned.   *)
(* last.pre is the registry the command loaded.                            *)
(***************************************************************************)
\* afero.NewOsFs().Remove(name)
FsRemove(fsys, name, io) ==
    IF io = "removeErr" \/ fsys[name] = Absent
    THEN [fs |-> fsys, io |-> IF io = "removeErr" THEN io ELSE "ok", err |-> "RemoveError"]
    ELSE [fs |-> [fsys EXCEPT ![name] = Absent], io |-> "ok", err |-> "nil"]

\* convertCmd.RunE on the filesystem fsys with args[0] = fmtExt: the
\* filesystem left, the registry loaded, the fault met, the error returned
convertResult(fsys, fmtExt, io) ==
    LET n == NewConfigResult(fsys, io) IN
    IF n.err # "nil"
    THEN [fs |-> n.fs, pre |-> <<>>, io |-> n.io, err |-> "ErrNewConfig"]
    ELSE LET toRemove == FormatString(n.cfg.Format)
             c == [n.cfg EXCEPT !.Format = FromExt(fmtExt)]
             s == SaveResult(c, n.fs, io)
             r == FsRemove(s.fs, toRemove, io)
         IN  IF s.err # "nil"
             THEN [fs |-> s.fs, pre |-> n.cfg.Roles, io |-> s.io, err |-> "ErrWritingToFile"]
             ELSE [fs |-> r.fs, pre |-> n.cfg.Roles, io |-> r.io, err |-> r.err]

\* addCmd.RunE on the filesystem fsys with args = [role, alias, session_name]
addResults(fsys, role, alias, sessionName, io) ==
    LET n == NewConfigResult(fsys, io)
        roleARN == ParseARN(role)
        r == [Alias |-> alias, ARN |-> roleARN.arn, SessionName |-> sessionName]
    IN
    IF n.err # "nil"
    THEN {[fs |-> n.fs, pre |-> <<>>, io |-> n.io, err |-> "ErrNewConfig"]}
    ELSE IF roleARN.err # "nil"
    THEN {[fs |-> n.fs, pre |-> n.cfg.Roles, io |-> "ok", err |-> roleARN.err]}
    ELSE {IF added.err # "nil"
          THEN [fs |-> n.fs, pre |-> n.cfg.Roles, io |-> "ok", err |-> added.err]
          ELSE LET s == SaveResult([n.cfg EXCEPT !.Roles = added.roles], n.fs, io)
               IN  [fs |-> s.fs, pre |-> n.cfg.Roles, io |-> s.io, err |-> s.err]
          : added \in AddRoleResults(n.cfg.Roles, r)}

\* a process runs the convert command
convertCmd(fmtExt, io) ==
    \E res \in {convertResult(fs, fmtExt, io)} :
        /\ fs' = res.fs
        /\ cfg' = NilConfig
        /\ last' = Ret("convertCmd", [fmtExt |-> fmtExt], res.pre, res.io, res.err)
        /\ UNCHANGED <<ex, call>>

\* a process runs the add command
addCmd(role, alias, sessionName, io) ==
    \E res \in addResults(fs, role, alias, sessionName, io) :
        /\ fs' = res.fs
        /\ cfg' = NilConfig
        /\ last' = Ret("addCmd",
                        [role |-> role, alias |-> alias, session_name |-> sessionName],
                        res.pre, res.io, res.err)
        /\ UNCHANGED <<ex, call>>

(***************************************************************************)
(* Role assumption executor: the process of the exec command.  It has a    *)
(* main flow (execCmd.RunE, Config.ExecRole, main), the relay goroutine    *)
(* ExecRole starts, and the child process; other processes send it         *)
(* signals.  ex.pc names the call the main flow makes next.                *)
(***************************************************************************)
\* the signals one run of exec receives at most
MaxSignals == 2
\* the largest exit status the child exits with
MaxExitStatus == 2

\* the value of the flag --session-duration when it is not given
DefaultSessionDuration == 3600

\* the termination signals that can be caught; SIGKILL, which ExecRole
\* also names, cannot be caught or forwarded
Signals == {"SIGINT", "SIGTERM"}

ExitStatuses == 0..MaxExitStatus

AWSAccessKeyIDEnvVar == "AWS_ACCESS_KEY_ID"
AWSSecreteAccessKeyEnvVar == "AWS_SECRET_ACCESS_KEY"
AWSSecurityTokenEnvVar == "AWS_SECURITY_TOKEN"
AWSSessionTokenEnvVar == "AWS_SESSION_TOKEN"

\* res.Credentials before any response
NoCredentials == [AccessKeyId |-> "", SecretAccessKey |-> "", SessionToken |-> ""]

\* res.Credentials of the responses STS gives
Credentials ==
    {[AccessKeyId |-> "AK1", SecretAccessKey |-> "SK1", SessionToken |-> "ST1"],
     [AccessKeyId |-> "AK2", SecretAccessKey |-> "SK2", SessionToken |-> "ST2"]}

\* os.Environ() of the process: without and with a session token of its own
Environs == {<<"HOME=/root">>, <<"HOME=/root", "AWS_SESSION_TOKEN=old">>}

\* the aliases exec is given: one the configuration holds and one it does not
ExecAliases == {<<"a">>, <<"a", "b">>}

\* the map literal ExecRole gives NewEnvMap
CredentialsEnvMap(c) ==
    [k \in {AWSAccessKeyIDEnvVar, AWSSecreteAccessKeyEnvVar, AWSSecurityTokenEnvVar,
            AWSSessionTokenEnvVar} |->
        IF k = AWSAccessKeyIDEnvVar THEN c.AccessKeyId
        ELSE IF k = AWSSecreteAccessKeyEnvVar THEN c.SecretAccessKey
        ELSE IF k = AWSSecurityTokenEnvVar THEN c.SessionToken
        ELSE c.SessionToken]

\* the slice that joins every value to the name of the entry before it in
\* the order of the names
StringSliceShifted(m) ==
    LET n == Cardinality(DOMAIN m) IN
    {[i \in 1..n |-> order[i] \o "=" \o m[order[IF i = 1 THEN n ELSE i - 1]]] :
        order \in {o \in [1..n -> DOMAIN m] : \A i, j \in 1..n : o[i] = o[j] => i = j}}

\* EnvMap.StringSlice: the slices it may return, one "k=v" for each entry
\* of the map, in the order range yields them, which Go leaves open
StringSlice(m) ==
    LET n == Cardinality(DOMAIN m) IN
    {[i \in 1..n |-> order[i] \o "=" \o m[order[i]]] :
        order \in {o \in [1..n -> DOMAIN m] : \A i, j \in 1..n : o[i] = o[j] => i = j}}

\* no exec process
NoExec == [pc |-> "none"]

\* the process of `awssume exec <alias> -- <command>` when RunE has read
\* its arguments
ExecStart(alias, environ) ==
    [pc |-> "NewConfig",
     args |-> [alias |-> alias, sessionDuration |-> DefaultSessionDuration],
     environ |-> environ,   \* os.Environ()
     resRole |-> 0,         \* the index of the role GetRoleByAlias points to
     requests |-> <<>>,     \* the AssumeRole requests sent
     res |-> NoCredentials, \* res.Credentials
     env |-> <<>>,          \* cmdToRun.Env
     notify |-> FALSE,      \* signal.Notify(sigChan, ...) is in effect
     sigChan |-> <<>>,      \* the signals buffered in sigChan (their numbers)
     relay |-> "none",      \* the relay goroutine: none, recv, check, done
     sig |-> 0,             \* the relay's sig
     child |-> "none",      \* the child: none, running, exited, signaled
     status |-> 0,          \* the exit status of the child once it has exited
     received |-> <<>>,     \* the signals the process received, in order
     delivered |-> {},      \* the numbers of the signals the child was sent
     steps |-> <<>>,        \* the steps of ExecRole taken, in order
     err |-> "nil",         \* the error RunE returns
     exit |-> 0]            \* the exit status of the process once it has exited

\* execCmd.RunE up to the call of ExecRole: NewConfig
execCmd ==
    /\ ex.pc = "NewConfig"
    /\ \E n \in {NewConfigResult(fs, "ok")} :
        /\ fs' = n.fs
        /\ cfg' = n.cfg
        /\ ex' = IF n.err # "nil"
                 THEN [ex EXCEPT !.pc = "return", !.err = "ErrNewConfig"]
                 ELSE [ex EXCEPT !.pc = "LoadDefaultAWSConfig"]
    /\ UNCHANGED <<last, call>>

\* ExecRole: external.LoadDefaultAWSConfig()
LoadDefaultAWSConfig(ok) ==
    /\ ex.pc = "LoadDefaultAWSConfig"
    /\ ex' = [ex EXCEPT !.steps = Append(@, "LoadDefaultAWSConfig"),
                        !.pc = IF ok THEN "GetRoleByAlias" ELSE "return",
                        !.err = IF ok THEN "nil" ELSE "ErrLoadAWSConfig"]
    /\ UNCHANGED <<fs, cfg, last, call>>

\* ExecRole: c.GetRoleByAlias(alias)
ExecGetRoleByAlias ==
    /\ ex.pc = "GetRoleByAlias"
    /\ \E i \in {GetRoleByAlias(cfg.Roles, ex.args.alias)} :
        ex' = [ex EXCEPT !.steps = Append(@, "GetRoleByAlias"),
                         !.resRole = i,
                         !.pc = IF i # 0 THEN "AssumeRole" ELSE "return",
                         !.err = IF i # 0 THEN "nil" ELSE "ErrGetRoleByAlias"]
    /\ UNCHANGED <<fs, cfg, last, call>>

\* the request that is sent again when Send returns an error
AssumeRoleRetried(out) ==
    /\ ex.pc = "AssumeRole"
    /\ ex' = [ex EXCEPT !.steps = Append(@, "AssumeRole"),
                        !.requests = Append(@,
                            [DurationSeconds |-> ex.args.sessionDuration,
                             RoleArn |-> ARNString(cfg.Roles[ex.resRole].ARN),
                             RoleSessionName |-> cfg.Roles[ex.resRole].SessionName]),
                        !.res = out,
                        !.pc = IF out # NoCredentials THEN "Command" ELSE "AssumeRole"]
    /\ UNCHANGED <<fs, cfg, last, call>>

\* ExecRole: sts.New(awsCfg).AssumeRoleRequest(...).Send(...); out is the
\* credentials of the response, NoCredentials when Send returns an error
AssumeRole(out) ==
    /\ ex.pc = "AssumeRole"
    /\ ex' = [ex EXCEPT !.steps = Append(@, "AssumeRole"),
                        !.requests = Append(@,
                            [DurationSeconds |-> ex.args.sessionDuration,
                             RoleArn |-> ARNString(cfg.Roles[ex.resRole].ARN),
                             RoleSessionName |-> cfg.Roles[ex.resRole].SessionName]),
                        !.res = out,
                        !.pc = IF out # NoCredentials THEN "Command" ELSE "return",
                        !.err = IF out # NoCredentials THEN "nil" ELSE "ErrSTSAssumeRole"]
    /\ UNCHANGED <<fs, cfg, last, call>>

\* ExecRole: exec.Command and the assignments to cmdToRun, Env the last
Command ==
    /\ ex.pc = "Command"
    /\ \E added \in StringSlice(CredentialsEnvMap(ex.res)) :
        ex' = [ex EXCEPT !.env = ex.environ \o added, !.pc = "Notify"]
    /\ UNCHANGED <<fs, cfg, last, call>>

\* ExecRole: make(chan os.Signal, 1) and signal.Notify
Notify ==
    /\ ex.pc = "Notify"
    /\ ex' = [ex EXCEPT !.notify = TRUE, !.pc = "go"]
    /\ UNCHANGED <<fs, cfg, last, call>>

\* ExecRole: the go statement
GoRelay ==
    /\ ex.pc = "go"
    /\ ex' = [ex EXCEPT !.relay = "recv", !.pc = "Start"]
    /\ UNCHANGED <<fs, cfg, last, call>>

\* cmdToRun.Run(): Start, which sets cmdToRun.Process when it succeeds
Start(ok) ==
    /\ ex.pc = "Start"
    /\ ex' = [ex EXCEPT !.steps = Append(@, "Start"),
                        !.child = IF ok THEN "running" ELSE "none",
                        !.pc = IF ok THEN "Wait" ELSE "return",
                        !.err = IF ok THEN "nil" ELSE "ExecError"]
    /\ UNCHANGED <<fs, cfg, last, call>>

\* cmdToRun.Run(): Wait, which returns when the child has ended, with an
\* *exec.ExitError unless it exited with status 0; ExecRole returns that
\* error as it is (the first test of err), so the branch that would exit
\* with the child's status is never taken
Wait ==
    /\ ex.pc = "Wait"
    /\ ex.child \in {"exited", "signaled"}
    /\ ex' = [ex EXCEPT !.steps = Append(@, "Wait"),
                        !.pc = "return",
                        !.err = IF ex.child = "exited" /\ ex.status = 0
                                THEN "nil" ELSE "ExitError"]
    /\ UNCHANGED <<fs, cfg, last, call>>

\* main: rootCmd.Execute() has returned; os.Exit(1) when it returned an error
Exit ==
    /\ ex.pc = "return"
    /\ ex' = [ex EXCEPT !.pc = "exited", !.exit = IF ex.err = "nil" THEN 0 ELSE 1]
    /\ UNCHANGED <<fs, cfg, last, call>>

\* the process receives a signal: without Notify it dies of it; with
\* Notify the runtime sends it to sigChan unless the buffer (of one) is full
Signal(s) ==
    /\ ex.pc \notin {"none", "exited", "killed"}
    /\ Len(ex.received) < MaxSignals
    /\ ex' = IF ~ex.notify
             THEN [ex EXCEPT !.received = Append(@, [sig |-> s, child |-> ex.child]),
                             !.pc = "killed"]
             ELSE [ex EXCEPT !.received = Append(@, [sig |-> s, child |-> ex.child]),
                             !.sigChan = IF Len(@) < 1
                                         THEN Append(@, Len(ex.received) + 1) ELSE @]
    /\ UNCHANGED <<fs, cfg, last, call>>

\* the relay goroutine: sig := <-sigChan
RelayRecv ==
    /\ ex.pc \notin {"exited", "killed"}
    /\ ex.relay = "recv"
    /\ ex.sigChan # <<>>
    /\ ex' = [ex EXCEPT !.sig = Head(ex.sigChan), !.sigChan = Tail(@), !.relay = "check"]
    /\ UNCHANGED <<fs, cfg, last, call>>

\* the relay goroutine: if cmdToRun.Process != nil { Process.Signal(sig) }
\* and its end.  The read of cmdToRun.Process is not ordered with the write
\* in Start: it sees nil before Start, and nil or the process after it.
\* Signal reaches the child only while it runs.
RelaySignal ==
    /\ ex.pc \notin {"exited", "killed"}
    /\ ex.relay = "check"
    /\ \E seen \in (IF ex.child = "none" THEN {FALSE} ELSE {TRUE, FALSE}) :
        ex' = [ex EXCEPT !.relay = "done",
                         !.delivered = IF seen /\ ex.child = "running"
                                       THEN @ \cup {ex.sig} ELSE @]
    /\ UNCHANGED <<fs, cfg, last, call>>

\* the child exits with the status k
ChildExit(k) ==
    /\ ex.pc # "none"
    /\ ex.child = "running"
    /\ ex' = [ex EXCEPT !.child = "exited", !.status = k]
    /\ UNCHANGED <<fs, cfg, last, call>>

\* the child is terminated by a signal it was sent
ChildSignaled ==
    /\ ex.pc # "none"
    /\ ex.child = "running"
    /\ ex.delivered # {}
    /\ ex' = [ex EXCEPT !.child = "signaled"]
    /\ UNCHANGED <<fs, cfg, last, call>>

(***************************************************************************)
(* Codec calls: call.in is the input, call.trace the functions applied,    *)
(* each with its argument and its result.                                  *)
(***************************************************************************)
NoCall == [in |-> <<>>, trace |-> <<>>]

\* the longest tail of colons and letters a string given to ParseARN has
MaxARNTail == 6
\* the number of functions applied to one input
MaxCalls == 2

\* the strings of length n over ":" and "a"
RECURSIVE TailsOfLen(_)
TailsOfLen(n) ==
    IF n = 0 THEN {<<>>}
    ELSE {<<c>> \o t : c \in {":", "a"}, t \in TailsOfLen(n - 1)}

\* the strings given to ParseARN: every string of colons and letters up to
\* MaxARNTail, as it is and after "arn:", and the strings of the tests
ARNInputs ==
    LET tails == UNION {TailsOfLen(n) : n \in 0..MaxARNTail} IN
    tails \cup {arnPrefix \o t : t \in tails} \cup ARNStrings

\* the values a field of an arn.ARN is given: "", "a", "a:b"
FieldValues == {<<>>, <<"a">>, <<"a", ":", "b">>}

\* the ARN values given to ARN.String
ARNValues ==
    [Partition : FieldValues, Service : FieldValues, Region : FieldValues,
     AccountID : FieldValues, Resource : FieldValues]

\* the strings given to FromExt: the arguments of convert, the other
\* extensions with a dot, two dots, another case, and the marker of Unknown
ExtInputs ==
    ExtArgs \cup
    {<<".", "t", "o", "m", "l">>, <<".", "y", "a", "m", "l">>, <<".", "y", "m", "l">>,
     <<".", ".", "j", "s", "o", "n">>, <<"J", "S", "O", "N">>, <<"j", "s", "o", "n", ".">>,
     <<".">>, <<"y", "a", "m">>, <<"U", "N", "K", "N", "O", "W", "N">>}

\* the strings the JSON inputs hold: two identifiers, "arn:::::", "arn:aws",
\* "a" and ""
JSONStrings ==
    ValidARNStrings \cup
    {arnPrefix \o <<":", ":", ":", ":">>, ShortARNString, <<"a">>, <<>>}

\* the JSON texts given to ARN.UnmarshalJSON: {"arn":"<s>"}, "<s>", {},
\* null, 1 and [], and bytes that are no JSON
JSONInputs ==
    {[t |-> "object", arn |-> s] : s \in JSONStrings}
    \cup {[t |-> "string", s |-> s] : s \in JSONStrings}
    \cup {[t |-> "object", arn |-> <<>>, members |-> 0]}
    \cup {[t |-> k] : k \in {"null", "number", "array"}}
    \cup {[t |-> "raw", text |-> s] : s \in ValidARNStrings}

\* the inputs of the codec specification, each under the name of its kind
CodecInputs ==
    {[str |-> s] : s \in ARNInputs}
    \cup {[id |-> a] : a \in ARNValues}
    \cup {[ext |-> e] : e \in ExtInputs}
    \cup {[format |-> cf] : cf \in Formats}
    \cup {[json |-> v] : v \in JSONInputs}

\* the value the next function is applied to: the input or the last result
CallValue == IF call.trace = <<>> THEN call.in ELSE call.trace[Len(call.trace)].out

\* a function fn has been applied to arg and returned out
Applied(fn, arg, out) ==
    /\ Len(call.trace) < MaxCalls
    /\ call' = [call EXCEPT !.trace = Append(@, [fn |-> fn, arg |-> arg, out |-> out])]
    /\ UNCHANGED <<fs, cfg, last, ex>>

\* ParseARN(s) is called on a string
CallParseARN ==
    /\ DOMAIN CallValue = {"str"}
    /\ \E r \in {ParseARN(CallValue.str)} :
        Applied("ParseARN", CallValue.str, [id |-> r.arn, err |-> r.err])

\* a.String() is called on an ARN (ParseARN returns one beside an error too)
CallARNString ==
    /\ "id" \in DOMAIN CallValue
    /\ Applied("ARNString", CallValue.id, [str |-> ARNString(CallValue.id)])

\* cf.FromExt(ext) is called
CallFromExt ==
    /\ DOMAIN CallValue = {"ext"}
    /\ Applied("FromExt", CallValue.ext, [format |-> FromExt(CallValue.ext)])

\* cf.String() is called
CallFormatString ==
    /\ DOMAIN CallValue = {"format"}
    /\ Applied("FormatString", CallValue.format, [ext |-> FormatString(CallValue.format)])

\* a.MarshalJSON() is called on an ARN
CallMarshalJSON ==
    /\ "id" \in DOMAIN CallValue
    /\ Applied("MarshalJSON", CallValue.id, [json |-> MarshalJSON(CallValue.id)])

\* a.UnmarshalJSON(bs) is called on a zero ARN
CallUnmarshalJSON ==
    /\ DOMAIN CallValue = {"json"}
    /\ \E r \in {UnmarshalJSON(CallValue.json)} :
        Applied("UnmarshalJSON", CallValue.json, [id |-> r.arn, err |-> r.err])


(***************************************************************************)
(* Registry-only specification: an empty registry and its three mutators.  *)
(***************************************************************************)

InitRegistry ==
    /\ fs = [e \in Extensions |-> IF e = FormatString(YAML) THEN EmptyFile ELSE Absent]
    /\ cfg = [Format |-> YAML, Roles |-> <<>>]
    /\ last = Ret("NewConfig", <<>>, <<>>, "ok", "nil")
    /\ ex = NoExec
    /\ call = NoCall

NextRegistry ==
    \/ \E r \in Roles : Len(cfg.Roles) < MaxRoles /\ AddRole(r)
    \/ \E a \in Aliases : RemoveRoleByAlias(a)
    \/ \E a \in Aliases, r \in Roles : UpdateRoleByAlias(a, r)

SpecRegistry == InitRegistry /\ [][NextRegistry]_vars

(***************************************************************************)
(* Registry specification with the setters of Role: a caller adds and      *)
(* removes roles and calls the setters on the roles the registry hands out.*)
(***************************************************************************)
NextSetters ==
    \/ \E r \in StoreRoles : Len(cfg.Roles) < MaxRoles /\ AddRole(r)
    \/ \E a \in StoreAliases : RemoveRoleByAlias(a)
    \/ \E i \in 1..MaxRoles, a \in StoreAliases : RoleSetAlias(i, a)
    \/ \E i \in 1..MaxRoles, s \in ValidARNStrings : RoleSetARN(i, ParseARN(s).arn)
    \/ \E i \in 1..MaxRoles, n \in {"sess", "other"} : RoleSetSessionName(i, n)

SpecSetters == InitRegistry /\ [][NextSetters]_vars

UniqueAliases(roles) ==
    \A i, j \in 1..Len(roles) : roles[i].Alias = roles[j].Alias => i = j

SortedDescending(roles) ==
    \A i, j \in 1..Len(roles) :
        i < j => (roles[i].Alias = roles[j].Alias \/ StrGreater(roles[i].Alias, roles[j].Alias))

(***************************************************************************)
(* Store specification: a filesystem with any of the three configuration   *)
(* files, and the calls of the library and of the CLI on it.               *)
(***************************************************************************)
\* the roles the files of the initial filesystem hold
DiskRoles == <<MkRole(<<"a">>, SkunkARNString, "sess"), MkRole(<<"b">>, ColonARNString, "sess")>>

\* what <path>.<extension> may hold before the first call
InitialFiles(ext) ==
    IF ext = FormatString(JSON)
    THEN {Absent,
          \* {"roles":[{"alias":"a","arn":{"arn":"arn:aws:iam::0:r/s"},...}]}
          Document("json", <<[alias |-> DiskRoles[1].Alias,
                              arn |-> [t |-> "object", arn |-> SkunkARNString],
                              session_name |-> DiskRoles[1].SessionName]>>),
          \* {"roles":[{"alias":"a","arn":"arn:aws:iam::0:r/s",...}]}
          Document("json", <<[alias |-> DiskRoles[1].Alias,
                              arn |-> [t |-> "string", s |-> SkunkARNString],
                              session_name |-> DiskRoles[1].SessionName]>>)}
    ELSE IF ext = FormatString(YAML)
    THEN {Absent, Garbage, yamlMarshal([Roles |-> SubSeq(DiskRoles, 1, 1)]).bytes,
          \* a file in ascending order of alias, as a user may write it
          yamlMarshal([Roles |-> DiskRoles]).bytes}
    ELSE IF ext = FormatString(TOML)
    THEN {Absent, tomlMarshal([Roles |-> SubSeq(DiskRoles, 1, 1)]).bytes}
    ELSE {Absent}

Init ==
    /\ fs \in {f \in [Extensions -> UNION {InitialFiles(e) : e \in Extensions}] :
                \A e \in Extensions : f[e] \in InitialFiles(e)}
    /\ cfg = NilConfig
    /\ last = Ret("start", <<>>, <<>>, "ok", "nil")
    /\ ex = NoExec
    /\ call = NoCall

Next ==
    \/ \E io \in {"ok", "statErr", "readErr", "createErr"} : NewConfig(io)
    \/ \E r \in StoreRoles : AddRole(r)
    \/ \E a \in StoreAliases : RemoveRoleByAlias(a)
    \/ \E format \in Formats : SetFormat(format)
    \/ \E io \in {"ok", "openErr", "writeErr"} : Save(io)
    \/ \E fmtExt \in ConvertArgs, io \in CommandFaults : convertCmd(fmtExt, io)
    \/ \E x \in AddArgs, io \in CommandFaults : addCmd(x[1], x[2], x[3], io)

Spec == Init /\ [][Next]_vars

(***************************************************************************)
(* Codec specification: one input of ParseARN, ARN.String, FromExt,        *)
(* ConfigFormat.String, ARN.MarshalJSON or ARN.UnmarshalJSON, and the      *)
(* functions applied to it and to their results.                           *)
(***************************************************************************)
InitCodec ==
    /\ fs = [e \in Extensions |-> Absent]
    /\ cfg = NilConfig
    /\ last = Ret("start", <<>>, <<>>, "ok", "nil")
    /\ ex = NoExec
    /\ call \in {[in |-> x, trace |-> <<>>] : x \in CodecInputs}

NextCodec ==
    \/ CallParseARN
    \/ CallARNString
    \/ CallFromExt
    \/ CallFormatString
    \/ CallMarshalJSON
    \/ CallUnmarshalJSON

SpecCodec == InitCodec /\ [][NextCodec]_vars

(***************************************************************************)
(* Executor specification: one run of `awssume exec <alias> -- <command>`  *)
(* on a filesystem whose <path>.yaml holds two roles (or bytes that are no *)
(* YAML), with the signals other processes send it.                        *)
(***************************************************************************)
InitExec ==
    /\ fs \in {[e \in Extensions |-> IF e = FormatString(YAML) THEN y ELSE Absent] :
                y \in {yamlMarshal([Roles |-> DiskRoles]).bytes, Garbage}}
    /\ cfg = NilConfig
    /\ last = Ret("start", <<>>, <<>>, "ok", "nil")
    /\ ex \in {ExecStart(alias, environ) : alias \in ExecAliases, environ \in Environs}
    /\ call = NoCall

\* the steps of the main flow
ExecMain ==
    \/ execCmd
    \/ \E ok \in BOOLEAN : LoadDefaultAWSConfig(ok)
    \/ ExecGetRoleByAlias
    \/ \E out \in Credentials \cup {NoCredentials} : AssumeRole(out)
    \/ Command
    \/ Notify
    \/ GoRelay
    \/ \E ok \in BOOLEAN : Start(ok)
    \/ Wait
    \/ Exit

\* the steps of the relay goroutine
ExecRelay == RelayRecv \/ RelaySignal

NextExec ==
    \/ ExecMain
    \/ ExecRelay
    \/ \E s \in Signals : Signal(s)
    \/ \E k \in ExitStatuses : ChildExit(k)
    \/ ChildSignaled

SpecExec == InitExec /\ [][NextExec]_vars


(***************************************************************************)
(* Relay specification: the part of a run of exec from signal.Notify on.   *)
(* It starts where ExecRole has loaded the configuration, resolved the     *)
(* alias "a", received credentials and built cmdToRun, a state SpecExec    *)
(* reaches, and interleaves the main flow, the relay goroutine, the child  *)
(* and the signals.                                                        *)
(***************************************************************************)
\* ExecRole about to call signal.Notify, in a process with the environment
\* environ
BeforeNotify(environ) ==
    LET c == NewConfigResult(
                [e \in Extensions |->
                    IF e = FormatString(YAML)
                    THEN yamlMarshal([Roles |-> DiskRoles]).bytes ELSE Absent],
                "ok").cfg
        i == GetRoleByAlias(c.Roles, <<"a">>)
        res == CHOOSE r \in Credentials : TRUE
    IN  [ExecStart(<<"a">>, environ) EXCEPT
            !.pc = "Notify",
            !.steps = <<"LoadDefaultAWSConfig", "GetRoleByAlias", "AssumeRole">>,
            !.resRole = i,
            !.requests = <<[DurationSeconds |-> DefaultSessionDuration,
                            RoleArn |-> ARNString(c.Roles[i].ARN),
                            RoleSessionName |-> c.Roles[i].SessionName]>>,
            !.res = res,
            !.env = environ \o (CHOOSE added \in StringSlice(CredentialsEnvMap(res)) : TRUE)]

InitRelay ==
    /\ fs = [e \in Extensions |->
                IF e = FormatString(YAML)
                THEN yamlMarshal([Roles |-> DiskRoles]).bytes ELSE Absent]
    /\ cfg = NewConfigResult(fs, "ok").cfg
    /\ last = Ret("start", <<>>, <<>>, "ok", "nil")
    /\ ex \in {BeforeNotify(environ) : environ \in Environs}
    /\ call = NoCall

\* the steps of the main flow from signal.Notify on
RelayMain ==
    \/ Notify
    \/ GoRelay
    \/ \E ok \in BOOLEAN : Start(ok)
    \/ Wait
    \/ Exit

NextRelay ==
    \/ RelayMain
    \/ ExecRelay
    \/ \E s \in Signals : Signal(s)
    \/ \E k \in ExitStatuses : ChildExit(k)
    \/ ChildSignaled

SpecRelay == InitRelay /\ [][NextRelay]_vars

\* the Go scheduler runs every goroutine that can run: the main flow and the
\* relay each take their next step when they have one.  Nothing makes the
\* child exit or a signal arrive.
FairSpecRelay == SpecRelay /\ WF_vars(RelayMain) /\ WF_vars(ExecRelay)

(***************************************************************************)
(* Claims about the role registry, checked under SpecRegistry.             *)
(***************************************************************************)
\* how often the role r occurs in roles
Occurrences(roles, r) == Cardinality({i \in 1..Len(roles) : roles[i] = r})

\* roles and others hold the same roles, each as often
SameRoles(roles, others) ==
    /\ Len(roles) = Len(others)
    /\ \A i \in 1..Len(roles) : Occurrences(roles, roles[i]) = Occurrences(others, roles[i])

RegistryOps == {"AddRole", "RemoveRoleByAlias", "UpdateRoleByAlias"}

\* C1: from an empty registry, after any sequence of AddRole,
\* RemoveRoleByAlias and UpdateRoleByAlias, no two roles of the registry
\* have the same alias.
C1_AliasesUnique == UniqueAliases(cfg.Roles)

\* C2: AddRole of a role whose alias the registry already holds returns
\* RoleExists and leaves the sequence of roles as it was before the call.
C2_AddExistingAliasFails ==
    (last.op = "AddRole" /\ GetRoleByAlias(last.pre, last.args.role.Alias) # 0)
        => (last.err = "RoleExists" /\ cfg.Roles = last.pre)

\* C2 happens: AddRole was called with an alias that a registry of at least
\* two roles held.
C2_Witness ==
    /\ last.op = "AddRole"
    /\ Len(last.pre) >= 2
    /\ GetRoleByAlias(last.pre, last.args.role.Alias) # 0
    /\ last.err = "RoleExists"

\* C3: after every successful AddRole the sequence is sorted descending by
\* alias and holds exactly the roles it held before and the new one,
\* whatever the order before the call was.
C3_AddSortsWholeSequence ==
    (last.op = "AddRole" /\ last.err = "nil")
        => /\ SortedDescending(cfg.Roles)
           /\ SameRoles(cfg.Roles, Append(last.pre, last.args.role))

\* C3 happens: AddRole succeeded on a registry that UpdateRoleByAlias had
\* left unsorted.
C3_Witness ==
    /\ last.op = "AddRole"
    /\ last.err = "nil"
    /\ Len(last.pre) >= 2
    /\ ~SortedDescending(last.pre)

\* C4 as stated: in every state reachable from the empty registry the
\* sequence of roles is sorted descending by alias.
C4_AlwaysSorted == SortedDescending(cfg.Roles)

\* C4 as amended: every call but a successful UpdateRoleByAlias leaves a
\* sorted registry sorted.
C4_SortedButForUpdate ==
    (/\ last.op \in RegistryOps
     /\ ~(last.op = "UpdateRoleByAlias" /\ last.err = "nil")
     /\ SortedDescending(last.pre))
        => SortedDescending(cfg.Roles)

\* C4 happens: RemoveRoleByAlias removed a role that was not the last of a
\* sorted registry of three.
C4_Witness ==
    /\ last.op = "RemoveRoleByAlias"
    /\ last.err = "nil"
    /\ Len(last.pre) >= 3
    /\ SortedDescending(last.pre)
    /\ last.pre[Len(last.pre)].Alias # last.args.alias

(***************************************************************************)
(* Claims about the config store, checked under Spec.                      *)
(***************************************************************************)
\* the formats whose file exists on the filesystem fsys
Present(fsys) == {cf \in {JSON, TOML, YAML} : fsys[FormatString(cf)] # Absent}

\* the {alias, arn, session_name} tuples of a registry
RoleTuples(roles) ==
    {<<roles[i].Alias, ARNString(roles[i].ARN), roles[i].SessionName>> : i \in 1..Len(roles)}

\* C5: NewConfig fails with ErrMultipleConfigs and returns no Config
\* whenever two or more of <path>.json, <path>.yaml, <path>.toml exist
\* (the existence probes themselves succeeding).
C5_MultipleConfigsRefused ==
    [][(/\ last'.op = "NewConfig"
        /\ last'.io = "ok"
        /\ Cardinality(Present(fs)) >= 2)
            => (last'.err = "ErrMultipleConfigs" /\ cfg' = NilConfig)]_vars

\* C5 happens: NewConfig has refused a filesystem that holds <path>.yaml and
\* <path>.toml and no <path>.json.
C5_Witness ==
    /\ last.op = "NewConfig"
    /\ last.err = "ErrMultipleConfigs"
    /\ Present(fs) = {YAML, TOML}

\* C6: when none of the three files exists, NewConfig succeeds, the Config
\* has the format YAML and no roles, and <path>.yaml exists afterwards and
\* is empty; nothing else on the filesystem changes.
C6_NoFileDefaultsToYAML ==
    [][(/\ last'.op = "NewConfig"
        /\ last'.io = "ok"
        /\ Present(fs) = {})
            => /\ last'.err = "nil"
               /\ cfg' = [Format |-> YAML, Roles |-> <<>>]
               /\ fs' = [fs EXCEPT ![FormatString(YAML)] = EmptyFile]]_vars

\* C6 happens: NewConfig returned a YAML Config without roles and the only
\* file is an empty <path>.yaml.
C6_Witness ==
    /\ last.op = "NewConfig"
    /\ last.err = "nil"
    /\ cfg = [Format |-> YAML, Roles |-> <<>>]
    /\ Present(fs) = {YAML}
    /\ fs[FormatString(YAML)] = EmptyFile

\* C7: when exactly one of the three files exists, NewConfig decodes that
\* file with the decoder of its format and touches no file; the Config it
\* returns has that format and the roles decoded, and it returns
\* ErrUnmarshal and no Config when that decoder rejects the file.
C7_OneFileSelectsItsFormat ==
    [][\A cf \in {JSON, TOML, YAML} :
        (/\ last'.op = "NewConfig"
         /\ last'.io = "ok"
         /\ Present(fs) = {cf})
            => LET decoded == IF cf = JSON THEN jsonUnmarshal(fs[FormatString(JSON)])
                              ELSE IF cf = TOML THEN tomlUnmarshal(fs[FormatString(TOML)])
                              ELSE yamlUnmarshal(fs[FormatString(YAML)])
               IN  /\ fs' = fs
                   /\ IF decoded.err = "nil"
                      THEN /\ last'.err = "nil"
                           /\ cfg' = [Format |-> cf, Roles |-> decoded.roles]
                      ELSE /\ last'.err = "ErrUnmarshal"
                           /\ cfg' = NilConfig]_vars

\* C7 happens: NewConfig returned a TOML Config with a role from a
\* filesystem whose only configuration file is <path>.toml.
C7_Witness ==
    /\ last.op = "NewConfig"
    /\ last.err = "nil"
    /\ Present(fs) = {TOML}
    /\ cfg.Format = TOML
    /\ Len(cfg.Roles) >= 1

\* C8: for every format in {JSON, TOML, YAML} and a Config of that format
\* with any number of roles, Save succeeds (the write not failing), and
\* NewConfig on the same path, the file saved being the only configuration
\* file, returns a registry with the same set of {alias, arn, session_name}.
C8_SaveLoadRoundTrip ==
    (/\ last.op = "Save"
     /\ last.io = "ok"
     /\ cfg.Format \in {JSON, TOML, YAML})
        => /\ last.err = "nil"
           /\ Present(fs) = {cfg.Format}
                => \E n \in {NewConfigResult(fs, "ok")} :
                        /\ n.err = "nil"
                        /\ RoleTuples(n.cfg.Roles) = RoleTuples(cfg.Roles)

\* C9: after the add command has succeeded on a YAML-backed configuration
\* without roles, NewConfig on the same path succeeds and GetRoleByAlias of
\* the alias added finds a role whose ARN stringifies to the very string the
\* command was given and whose session name is the one given.
C9_AddSaveReloadYAML ==
    (/\ last.op = "addCmd"
     /\ last.err = "nil"
     /\ last.pre = <<>>
     /\ YAML \in Present(fs))
        => \E n \in {NewConfigResult(fs, "ok")} :
            /\ n.err = "nil"
            /\ n.cfg.Format = YAML
            /\ \E i \in {GetRoleByAlias(n.cfg.Roles, last.args.alias)} :
                /\ i # 0
                /\ ARNString(n.cfg.Roles[i].ARN) = last.args.role
                /\ n.cfg.Roles[i].SessionName = last.args.session_name

\* C9 happens: the add command has succeeded with an identifier whose
\* resource holds a colon, on a configuration without roles, and the only
\* configuration file is <path>.yaml.
C9_Witness ==
    /\ last.op = "addCmd"
    /\ last.err = "nil"
    /\ last.pre = <<>>
    /\ last.args.role = ColonARNString
    /\ Present(fs) = {YAML}

\* C10: the convert command given a supported format f other than the
\* format g of the configuration, no filesystem call failing, succeeds and
\* leaves <path>.<f> holding the roles of the configuration and <path>.<g>
\* absent.
C10_ConvertMovesConfig ==
    [][\A n \in {NewConfigResult(fs, "ok")} :
        (/\ last'.op = "convertCmd"
         /\ last'.io = "ok"
         /\ n.err = "nil"
         /\ FromExt(last'.args.fmtExt) \in {JSON, TOML, YAML}
         /\ FromExt(last'.args.fmtExt) # n.cfg.Format)
            => /\ last'.err = "nil"
               /\ fs'[FormatString(n.cfg.Format)] = Absent
               /\ Unmarshal(FromExt(last'.args.fmtExt),
                            fs'[FormatString(FromExt(last'.args.fmtExt))])
                    = [roles |-> n.cfg.Roles, err |-> "nil"]]_vars

\* C11: after any sequence of loads, registry mutations, saves and converts
\* (convert given any extension, recognized or not) no file exists under
\* the extension UNKNOWN: Save never writes while the format is Unknown.
C11_UnknownNeverPersisted == fs[FormatString(Unknown)] = Absent

(***************************************************************************)
(* Claims about the executor, checked under SpecExec and FairSpecExec.     *)
(***************************************************************************)
\* C12: when the child started by exec exits with the status k, the process
\* of the tool exits with k: 0 when the child exits 0, and the child's
\* non-zero status itself, not the status 1 of a tool error.
C12_ExitStatusPropagated ==
    (ex.pc = "exited" /\ ex.child = "exited") => ex.exit = ex.status

\* C13: every termination signal the process receives while the child runs,
\* the first and the later ones, is eventually sent to the child (unless
\* the child ends before).
C13_EverySignalForwarded ==
    \A n \in 1..MaxSignals :
        (Len(ex.received) >= n /\ ex.received[n].child = "running")
            ~> (n \in ex.delivered \/ ex.child # "running")

ColonCount(s) == Cardinality({i \in 1..Len(s) : s[i] = ":"})

\* s starts with "arn:"
StartsWithArn(s) ==
    Len(s) >= 4 /\ s[1] = "a" /\ s[2] = "r" /\ s[3] = "n" /\ s[4] = ":"

\* s starts with "arn:" and has six colon-delimited segments or more
SixSegmentGrammar(s) == StartsWithArn(s) /\ ColonCount(s) + 1 >= 6

\* the i-th function applied was fn
CalledAt(i, fn) == i \in 1..Len(call.trace) /\ call.trace[i].fn = fn

\* C15: for every string s with the prefix arn: and six colon-delimited
\* segments or more (empty ones and colons in the resource included),
\* ParseARN(s) succeeds and String() of the result is s.
C15_StringOfParse ==
    \A i \in 1..Len(call.trace) :
        (CalledAt(i, "ParseARN") /\ SixSegmentGrammar(call.trace[i].arg))
            => /\ call.trace[i].out.err = "nil"
               /\ CalledAt(i + 1, "ARNString")
                    => call.trace[i + 1].out.str = call.trace[i].arg

\* C15 happens: a string whose resource holds a colon and whose other
\* segments are partly empty was parsed and stringified.
C15_Witness ==
    /\ CalledAt(1, "ParseARN")
    /\ CalledAt(2, "ARNString")
    /\ ColonCount(call.trace[1].arg) >= 6
    /\ call.trace[1].out.err = "nil"
    /\ call.trace[1].out.id.Region = <<>>
    /\ call.trace[1].out.id.Partition # <<>>

\* C16 as stated: for every ARN value id, ParseARN(id.String()) succeeds
\* and returns a value equal to id in its five fields.
C16_ParseOfString ==
    \A i \in 1..Len(call.trace) :
        (CalledAt(i, "ARNString") /\ CalledAt(i + 1, "ParseARN"))
            => call.trace[i + 1].out = [id |-> call.trace[i].arg, err |-> "nil"]

\* C16 as amended: the same for every ARN value whose partition, service,
\* region and account id hold no colon (the resource may).
C16_ParseOfStringWithoutColons ==
    \A i \in 1..Len(call.trace) :
        (/\ CalledAt(i, "ARNString")
         /\ CalledAt(i + 1, "ParseARN")
         /\ ColonCount(call.trace[i].arg.Partition) = 0
         /\ ColonCount(call.trace[i].arg.Service) = 0
         /\ ColonCount(call.trace[i].arg.Region) = 0
         /\ ColonCount(call.trace[i].arg.AccountID) = 0)
            => call.trace[i + 1].out = [id |-> call.trace[i].arg, err |-> "nil"]

\* C16 happens: a value with an empty region and a colon in its resource was
\* stringified and parsed back.
C16_Witness ==
    /\ CalledAt(1, "ARNString")
    /\ CalledAt(2, "ParseARN")
    /\ call.in.id.Region = <<>>
    /\ call.in.id.Partition = <<"a">>
    /\ call.in.id.Service = <<"a">>
    /\ call.in.id.AccountID = <<>>
    /\ ColonCount(call.in.id.Resource) = 1
    /\ call.trace[2].out.id = call.in.id

\* C17: ParseARN(s) fails, with one of the two errors of a malformed
\* identifier, exactly when s lacks the prefix arn: or has fewer than six
\* colon-delimited segments, and then returns the all-empty ARN; it accepts
\* every other string, "arn:::::" among them.
C17_ParseFailsExactly ==
    \A i \in 1..Len(call.trace) :
        CalledAt(i, "ParseARN")
            => /\ (call.trace[i].out.err # "nil") <=> ~SixSegmentGrammar(call.trace[i].arg)
               /\ call.trace[i].out.err \in {"nil", "invalid prefix", "not enough sections"}
               /\ call.trace[i].out.err # "nil" => call.trace[i].out.id = ZeroARN

\* C17 happens: "arn:::::" was parsed, without an error.
C17_Witness ==
    /\ CalledAt(1, "ParseARN")
    /\ call.trace[1].arg = <<"a", "r", "n", ":", ":", ":", ":", ":">>
    /\ call.trace[1].out = [id |-> ZeroARN, err |-> "nil"]

\* ext without its one leading dot
Undotted(ext) == IF ext # <<>> /\ ext[1] = "." THEN Tail(ext) ELSE ext

\* C18: for json, toml and yaml, with one leading dot or without,
\* String() of the format FromExt sets is the extension without the dot;
\* yml (with the dot or without) gives YAML and so yaml; every other
\* string, the empty one included, gives Unknown, whose String() is
\* UNKNOWN; and FromExt(f.String()) sets f again for each of the four
\* formats.
C18_FormatExtensionStable ==
    \A i \in 1..Len(call.trace) :
        /\ CalledAt(i, "FromExt")
            => LET bare == Undotted(call.trace[i].arg)
                   expected ==
                       IF bare = <<"j", "s", "o", "n">> THEN [format |-> JSON, ext |-> bare]
                       ELSE IF bare = <<"t", "o", "m", "l">> THEN [format |-> TOML, ext |-> bare]
                       ELSE IF bare = <<"y", "a", "m", "l">> THEN [format |-> YAML, ext |-> bare]
                       ELSE IF bare = <<"y", "m", "l">>
                       THEN [format |-> YAML, ext |-> <<"y", "a", "m", "l">>]
                       ELSE [format |-> Unknown,
                             ext |-> <<"U", "N", "K", "N", "O", "W", "N">>]
               IN  /\ call.trace[i].out.format = expected.format
                   /\ CalledAt(i + 1, "FormatString")
                        => call.trace[i + 1].out.ext = expected.ext
        /\ (CalledAt(i, "FormatString") /\ CalledAt(i + 1, "FromExt"))
            => call.trace[i + 1].out.format = call.trace[i].arg

\* C18 happens: FromExt(".yaml") and then String() were called.
C18_Witness ==
    /\ call.in = [ext |-> <<".", "y", "a", "m", "l">>]
    /\ CalledAt(1, "FromExt")
    /\ CalledAt(2, "FormatString")
    /\ call.trace[2].out.ext = <<"y", "a", "m", "l">>

\* value is the JSON object {"arn": "<s>"}
ArnObject(value) == value.t = "object" /\ DOMAIN value = {"t", "arn"}

\* C19 as stated: MarshalJSON emits the bare text of String(); UnmarshalJSON
\* of an object {"arn": "<s>"} with a valid s yields ParseARN(s); of every
\* other input it fails with the parser's invalid-prefix error and leaves
\* the all-empty ARN; UnmarshalJSON of what MarshalJSON emitted never
\* succeeds with the value encoded.
C19_JSONCodecAsymmetric ==
    \A i \in 1..Len(call.trace) :
        /\ CalledAt(i, "MarshalJSON")
            => /\ call.trace[i].out.json = [t |-> "raw", text |-> ARNString(call.trace[i].arg)]
               /\ CalledAt(i + 1, "UnmarshalJSON")
                    => call.trace[i + 1].out # [id |-> call.trace[i].arg, err |-> "nil"]
        /\ CalledAt(i, "UnmarshalJSON")
            => IF ArnObject(call.trace[i].arg) /\ SixSegmentGrammar(call.trace[i].arg.arn)
               THEN call.trace[i].out =
                        [id |-> ParseARN(call.trace[i].arg.arn).arn, err |-> "nil"]
               ELSE call.trace[i].out = [id |-> ZeroARN, err |-> "invalid prefix"]

\* C19 as amended: the same, but the error of the failed decode is the
\* parser's: not-enough-sections for an object {"arn": "<s>"} whose s has
\* the prefix arn: and fewer than six segments, invalid-prefix for every
\* other rejected input.
C19_JSONCodecAsymmetricParserError ==
    \A i \in 1..Len(call.trace) :
        /\ CalledAt(i, "MarshalJSON")
            => /\ call.trace[i].out.json = [t |-> "raw", text |-> ARNString(call.trace[i].arg)]
               /\ CalledAt(i + 1, "UnmarshalJSON")
                    => call.trace[i + 1].out # [id |-> call.trace[i].arg, err |-> "nil"]
        /\ CalledAt(i, "UnmarshalJSON")
            => IF ArnObject(call.trace[i].arg) /\ SixSegmentGrammar(call.trace[i].arg.arn)
               THEN call.trace[i].out =
                        [id |-> ParseARN(call.trace[i].arg.arn).arn, err |-> "nil"]
               ELSE call.trace[i].out =
                        [id |-> ZeroARN,
                         err |-> IF ArnObject(call.trace[i].arg)
                                    /\ StartsWithArn(call.trace[i].arg.arn)
                                 THEN "not enough sections" ELSE "invalid prefix"]

\* C19 happens: an ARN with a partition was encoded and the bytes decoded,
\* which failed with the invalid-prefix error.
C19_Witness ==
    /\ CalledAt(1, "MarshalJSON")
    /\ CalledAt(2, "UnmarshalJSON")
    /\ call.in.id.Partition # <<>>
    /\ call.trace[2].out = [id |-> ZeroARN, err |-> "invalid prefix"]

(***************************************************************************)
(* More claims about the role registry, checked under SpecRegistry.        *)
(***************************************************************************)
\* C20: UpdateRoleByAlias(alias, r) returns RoleNotFound and leaves the
\* registry as it was when no role has the alias; otherwise the registry is
\* the old sequence without its first role of that alias, the others in
\* their order, followed by r as the last element, wherever the alias of r
\* would sort.
C20_UpdateIsRemoveThenAppend ==
    last.op = "UpdateRoleByAlias"
        => IF \A i \in 1..Len(last.pre) : last.pre[i].Alias # last.args.alias
           THEN last.err = "RoleNotFound" /\ cfg.Roles = last.pre
           ELSE /\ last.err = "nil"
                /\ \E i \in 1..Len(last.pre) :
                    /\ last.pre[i].Alias = last.args.alias
                    /\ \A j \in 1..(i - 1) : last.pre[j].Alias # last.args.alias
                    /\ cfg.Roles = SubSeq(last.pre, 1, i - 1)
                                   \o SubSeq(last.pre, i + 1, Len(last.pre))
                                   \o <<last.args.role>>

\* C20 happens: a role that was not the last of three was replaced by a
\* role whose alias sorts before the first of the registry, and that role is
\* the last now.
C20_Witness ==
    /\ last.op = "UpdateRoleByAlias"
    /\ last.err = "nil"
    /\ Len(last.pre) = 3
    /\ last.pre[3].Alias # last.args.alias
    /\ StrGreater(last.args.role.Alias, cfg.Roles[1].Alias)
    /\ cfg.Roles[3] = last.args.role

\* C21: RemoveRoleByAlias(alias) returns RoleNotFound and leaves the
\* registry as it was when no role has the alias; otherwise it removes the
\* first role with the alias and no other: the registry is one shorter and
\* the other roles keep their order.
C21_RemoveFirstMatchOnly ==
    last.op = "RemoveRoleByAlias"
        => IF \A i \in 1..Len(last.pre) : last.pre[i].Alias # last.args.alias
           THEN last.err = "RoleNotFound" /\ cfg.Roles = last.pre
           ELSE /\ last.err = "nil"
                /\ Len(cfg.Roles) = Len(last.pre) - 1
                /\ \E i \in 1..Len(last.pre) :
                    /\ last.pre[i].Alias = last.args.alias
                    /\ \A j \in 1..(i - 1) : last.pre[j].Alias # last.args.alias
                    /\ \A j \in 1..(i - 1) : cfg.Roles[j] = last.pre[j]
                    /\ \A j \in i..Len(cfg.Roles) : cfg.Roles[j] = last.pre[j + 1]

\* C21 happens: a registry of three held the alias twice (UpdateRoleByAlias
\* had left it so), and the first of the two roles was removed, which was
\* not the last role of the registry.
C21_Witness ==
    /\ last.op = "RemoveRoleByAlias"
    /\ last.err = "nil"
    /\ Len(last.pre) = 3
    /\ Cardinality({i \in 1..3 : last.pre[i].Alias = last.args.alias}) = 2
    /\ \E i \in 1..2 : cfg.Roles[i].Alias = last.args.alias

(***************************************************************************)
(* More claims about the executor.                                         *)
(***************************************************************************)
\* the steps of ExecRole in the order of its code
ExecOrder == <<"LoadDefaultAWSConfig", "GetRoleByAlias", "AssumeRole", "Start", "Wait">>

\* the error a run ends with when the step fails
StepError(step) ==
    IF step = "LoadDefaultAWSConfig" THEN "ErrLoadAWSConfig"
    ELSE IF step = "GetRoleByAlias" THEN "ErrGetRoleByAlias"
    ELSE IF step = "AssumeRole" THEN "ErrSTSAssumeRole"
    ELSE IF step = "Start" THEN "ExecError"
    ELSE "ExitError"

\* C22: in every run of exec the steps taken so far are the first ones of
\* load-AWS-config, resolve-role, AssumeRole, spawn, wait, each once and in
\* this order; a run that has an error has it from its last step, which
\* failed, and took no step after it; at most one AssumeRole request is
\* sent, none for an alias the configuration does not hold, and a child
\* exists only after AssumeRole has returned credentials.
C22_LinearStateMachine ==
    ex.pc # "none"
        => /\ Len(ex.steps) <= Len(ExecOrder)
           /\ ex.steps = SubSeq(ExecOrder, 1, Len(ex.steps))
           /\ Len(ex.requests) = Cardinality({i \in 1..Len(ex.steps) : ex.steps[i] = "AssumeRole"})
           /\ Len(ex.requests) <= 1
           /\ ex.requests # <<>>
                => \E i \in 1..Len(cfg.Roles) :
                    /\ cfg.Roles[i].Alias = ex.args.alias
                    /\ ex.requests[1].RoleArn = ARNString(cfg.Roles[i].ARN)
           /\ ex.child # "none" => (ex.res \in Credentials /\ Len(ex.requests) = 1)
           /\ ex.err = "ErrNewConfig" => ex.steps = <<>>
           /\ ex.err \notin {"nil", "ErrNewConfig"}
                => /\ ex.steps # <<>>
                   /\ ex.err = StepError(ex.steps[Len(ex.steps)])
                   /\ ex.pc \in {"return", "exited", "killed"}

\* C22 happens: a run has ended after its AssumeRole request failed, with
\* three steps taken and no child.
C22_Witness ==
    /\ ex.pc = "exited"
    /\ ex.err = "ErrSTSAssumeRole"
    /\ Len(ex.steps) = 3
    /\ Len(ex.requests) = 1
    /\ ex.child = "none"

(***************************************************************************)
(* More claims about the config store, checked under Spec.                 *)
(***************************************************************************)
\* C23: when the convert command has saved under the new extension and the
\* removal of the file of the old extension then fails, the command
\* returns an error, <path>.<new> and <path>.<old> both exist, and NewConfig
\* on the path fails with ErrMultipleConfigs.
C23_ConvertNotTransactional ==
    [][(last'.op = "convertCmd" /\ last'.io = "removeErr")
        => \E n \in {NewConfigResult(fs, "ok")} :
            /\ last'.err # "nil"
            /\ fs'[FormatString(FromExt(last'.args.fmtExt))] # Absent
            /\ fs'[FormatString(n.cfg.Format)] # Absent
            /\ NewConfigResult(fs', "ok").err = "ErrMultipleConfigs"]_vars

\* C24: once the child has ended and ExecRole has returned from its wait,
\* the relay goroutine has ended and signal.Notify is no longer in effect
\* for its channel, whether a signal was received or not.
C24_RelayEndsWithWait ==
    (ex.pc = "return" /\ ex.steps # <<>> /\ ex.steps[Len(ex.steps)] = "Wait")
        => (ex.relay = "done" /\ ~ex.notify)

\* C25: after the convert command has returned without an error, whatever
\* its argument was, exactly one of <path>.json, <path>.yaml, <path>.toml
\* exists and NewConfig on the path returns the roles the command loaded.
C25_ConvertKeepsConfig ==
    (last.op = "convertCmd" /\ last.err = "nil")
        => /\ Cardinality(Present(fs)) = 1
           /\ \E n \in {NewConfigResult(fs, "ok")} :
                n.err = "nil" /\ n.cfg.Roles = last.pre

\* C26: every signal the process has received once signal.Notify is in
\* effect, also one received before the child was started, is eventually
\* sent to the child once the child runs (unless the child ends before),
\* whatever was received earlier.
C26_NoSignalLostBeforeStart ==
    \A n \in 1..MaxSignals :
        (ex.pc # "killed" /\ Len(ex.received) >= n /\ ex.child = "running")
            ~> (n \in ex.delivered \/ ex.child # "running")

\* C27: a Save whose serialization fails (ErrMarshal) leaves every file as
\* it was, and a convert command whose Save fails returns an error and
\* leaves the file of the old extension in place (with a failed
\* serialization, the whole filesystem as NewConfig left it).
C27_FailedSaveWritesNothing ==
    [][/\ (last'.op = "Save" /\ last'.err = "ErrMarshal") => fs' = fs
       /\ (last'.op = "convertCmd" /\ last'.err = "ErrWritingToFile")
            => \E n \in {NewConfigResult(fs, "ok")} :
                /\ fs'[FormatString(n.cfg.Format)] # Absent
                /\ last'.io = "ok" => fs' = n.fs]_vars

\* C27 happens: the convert command loaded a role from <path>.yaml, failed
\* to serialize it as JSON, and <path>.yaml is still the only file.
C27_Witness ==
    /\ last.op = "convertCmd"
    /\ last.err = "ErrWritingToFile"
    /\ last.io = "ok"
    /\ last.pre # <<>>
    /\ Present(fs) = {YAML}

\* C28: NewConfig leaves every existing file as it is: either the
\* filesystem is the same after it as before, or none of the three files
\* existed and the only change is the new, empty <path>.yaml.
C28_LoadOnlyCreatesYAML ==
    [][last'.op = "NewConfig"
        => \/ fs' = fs
           \/ /\ Present(fs) = {}
              /\ fs' = [fs EXCEPT ![FormatString(YAML)] = EmptyFile]]_vars

\* C28 happens: NewConfig failed to decode <path>.yaml, which holds the same
\* bytes still.
C28_Witness ==
    /\ last.op = "NewConfig"
    /\ last.err = "ErrUnmarshal"
    /\ fs[FormatString(YAML)] = Garbage

(***************************************************************************)
(* Claim about the setters of Role, checked under SpecSetters.             *)
(***************************************************************************)
\* C29: a call of SetAlias, SetARN or SetSessionName on a role the registry
\* handed out leaves the registry's sequence of roles as it was, so that no
\* alias is duplicated and the order is not disturbed by it.
C29_SettersLeaveRegistry ==
    last.op \in {"SetAlias", "SetARN", "SetSessionName"} => cfg.Roles = last.pre

====
